---- MODULE Spec2Model ----
(***************************************************************************)
(* Obsidian AutoLink: the batched ingestion of a vault into a graph store. *)
(* Model of src/src/obsidian_autolink/knowledge_graph.py (class            *)
(* ObsidianKnowledgeGraph) and of its caller main() in main.py.            *)
(*                                                                         *)
(* Text is modelled as a sequence of one-character strings; a path is a   *)
(* sequence of components, each component a text.                          *)
(***************************************************************************)
EXTENDS Integers, Sequences, FiniteSets, Bags, TLC

(* ------------------------------ bounds -------------------------------- *)
\* most files a vault directory holds
MaxFiles == 3
\* largest batch size a caller passes
MaxBatchSize == 2
\* most calls of create_knowledge_graph on one object (api caller)
MaxRuns == 2

(* ------------------------------- text --------------------------------- *)
\* the ASCII characters str.strip() removes, those for which str.isspace()
\* holds: space, \t, \n, \r, \f, the vertical tab U+000B and the separators
\* U+001C to U+001F (the last five stand in the strings as themselves)
Whitespace == {" ", "\n", "\t", "\r", "\f", "", "", "", "", ""}

\* str.startswith(prefix)
StartsWith(s, prefix) ==
    /\ Len(s) >= Len(prefix)
    /\ SubSeq(s, 1, Len(prefix)) = prefix

\* str.endswith(suffix)
EndsWith(s, suffix) ==
    /\ Len(s) >= Len(suffix)
    /\ SubSeq(s, Len(s) - Len(suffix) + 1, Len(s)) = suffix

\* content.split('\n')[0]: the text before the first newline
FirstLine(s) ==
    LET nl == {i \in 1..Len(s) : s[i] = "\n"}
    IN  IF nl = {} THEN s
        ELSE SubSeq(s, 1, (CHOOSE i \in nl : \A j \in nl : i <= j) - 1)

\* str.strip(): drop leading and trailing whitespace
Strip(s) ==
    LET keep == {i \in 1..Len(s) : s[i] \notin Whitespace}
    IN  IF keep = {} THEN << >>
        ELSE SubSeq(s, CHOOSE i \in keep : \A j \in keep : i <= j,
                       CHOOSE i \in keep : \A j \in keep : i >= j)

\* PurePath.stem: the final component without its last suffix
Stem(name) ==
    LET dots == {i \in 1..Len(name) : name[i] = "."}
        last == IF dots = {} THEN 0
                ELSE CHOOSE i \in dots : \A j \in dots : i >= j
    IN  IF 1 < last /\ last < Len(name)
        THEN SubSeq(name, 1, last - 1) ELSE name

RECURSIVE JoinPath(_)
\* str(path): the components joined by the separator
JoinPath(parts) ==
    IF parts = << >> THEN << >>
    ELSE IF Len(parts) = 1 THEN parts[1]
    ELSE parts[1] \o <<"/">> \o JoinPath(Tail(parts))

\* a text of n copies of character c
Repeat(c, n) == [i \in 1..n |-> c]

(* --------------------------- vault reader ----------------------------- *)
\* glob pattern "*.md" of rglob
MdSuffix == <<".", "m", "d">>

\* part.startswith('.')
IsHidden(part) == StartsWith(part, <<".">>)

\* title: first heading if the content starts with "# ", else the file stem
TitleOf(name, content) ==
    IF StartsWith(content, <<"#", " ">>)
    THEN Strip(SubSeq(FirstLine(content), 3, Len(FirstLine(content))))
    ELSE Stem(name)

\* the VaultFile record appended for one readable file
VaultFileOf(root, entry) ==
    [file_path     |-> JoinPath(root \o entry.rel),
     title         |-> TitleOf(entry.rel[Len(entry.rel)], entry.content),
     content       |-> entry.content,
     relative_path |-> JoinPath(entry.rel)]

\* the loop body of read_vault_files: is this directory entry kept
Eligible(root, entry) ==
    /\ EndsWith(entry.rel[Len(entry.rel)], MdSuffix)
    /\ ~ \E i \in 1..Len(root \o entry.rel) : IsHidden((root \o entry.rel)[i])
    /\ entry.readable

RECURSIVE ReadEntries(_, _)
ReadEntries(root, entries) ==
    IF entries = << >> THEN << >>
    ELSE (IF Eligible(root, Head(entries))
          THEN << VaultFileOf(root, Head(entries)) >> ELSE << >>)
         \o ReadEntries(root, Tail(entries))

\* read_vault_files on an existing vault directory, with the entries in the
\* order in which rglob delivers them
read_vault_files(root, listing) == ReadEntries(root, listing)

(* ------------------------------ batcher ------------------------------- *)
RECURSIVE batchedOversize(_, _)
\* variant: every group takes one element more than asked for
batchedOversize(s, n) ==
    IF s = << >> THEN << >>
    ELSE IF Len(s) <= n + 1 THEN << s >>
    ELSE << SubSeq(s, 1, n + 1) >> \o batchedOversize(SubSeq(s, n + 2, Len(s)), n)

RECURSIVE batchedDropsRemainder(_, _)
\* variant: a last group shorter than n is not delivered
batchedDropsRemainder(s, n) ==
    IF Len(s) < n THEN << >>
    ELSE << SubSeq(s, 1, n) >> \o batchedDropsRemainder(SubSeq(s, n + 1, Len(s)), n)

RECURSIVE batched(_, _)
\* itertools.batched(iterable, n) for n >= 1, as a list of tuples
batched(s, n) ==
    IF s = << >> THEN << >>
    ELSE IF Len(s) <= n THEN << s >>
    ELSE << SubSeq(s, 1, n) >> \o batched(SubSeq(s, n + 1, Len(s)), n)

(* ---------------------------- graph store ----------------------------- *)
\* A node is a record with a field labels (a sequence of label names) and
\* its properties; its identity is its index in the sequence of nodes.
\* A relationship is a record [type, from, to]; rels is a bag of them.
NoteLabel == "Note"

\* entities=[...] handed to SimpleKGPipeline
entities == <<"Person", "Book", "Topic", "Meeting", "Event", "Location",
              "Organisation", "Article", "Paper", "Note">>

HasLabel(node, l) == \E i \in 1..Len(node.labels) : node.labels[i] = l

\* MATCH (n:Note {title: $title}): the ids of the matching nodes
MatchNote(ns, title) ==
    {i \in 1..Len(ns) : /\ HasLabel(ns[i], NoteLabel)
                        /\ "title" \in DOMAIN ns[i]
                        /\ ns[i].title = title}

\* number of characters a content preview keeps
PreviewLen == 500

\* content[:500] + "..." if len(content) > 500 else content
ContentPreview(content) ==
    IF Len(content) > PreviewLen
    THEN SubSeq(content, 1, PreviewLen) \o <<".", ".", ".">>
    ELSE content

\* the node MERGE creates or updates and the SET clause fills
\* SET n.file_path = ..., n.relative_path = ..., n.content_preview = ...,
\* n.created_date = datetime(): the four properties are overwritten
SetNote(node, file_data, now) ==
    [k \in DOMAIN node \cup {"file_path", "relative_path",
                             "content_preview", "created_date"} |->
        CASE k = "file_path"       -> file_data.file_path
          [] k = "relative_path"   -> file_data.relative_path
          [] k = "content_preview" -> ContentPreview(file_data.content)
          [] k = "created_date"    -> now
          [] OTHER                 -> node[k]]

\* the node MERGE creates when none matches, after the SET clause
NoteNode(file_data, now) ==
    SetNote([labels |-> << NoteLabel >>, title |-> file_data.title],
            file_data, now)

\* variant: CREATE instead of MERGE, a node is added on every call
CreateNote(ns, file_data, now) == Append(ns, NoteNode(file_data, now))

\* the query of _create_note_node: MERGE (n:Note {title}) SET ...
MergeNote(ns, file_data, now) ==
    IF MatchNote(ns, file_data.title) = {}
    THEN Append(ns, NoteNode(file_data, now))
    ELSE [i \in 1..Len(ns) |->
            IF i \in MatchNote(ns, file_data.title)
            THEN SetNote(ns[i], file_data, now) ELSE ns[i]]

\* variant: the filter NOT e:Note is missing
LinkRowsUnfiltered(ns, title) ==
    {<<n, e>> \in MatchNote(ns, title) \X (1..Len(ns)) : e # n}

\* variant: only the entities that carry the title of the note are matched
LinkRowsOfDocument(ns, title) ==
    {<<n, e>> \in MatchNote(ns, title) \X (1..Len(ns)) :
        /\ e # n
        /\ ~ HasLabel(ns[e], NoteLabel)
        /\ "name" \in DOMAIN ns[e]
        /\ ns[e].name = title}

\* the rows of link_query: MATCH (n:Note {title}) MATCH (e)
\* WHERE e <> n AND NOT e:Note
LinkRows(ns, title) ==
    {<<n, e>> \in MatchNote(ns, title) \X (1..Len(ns)) :
        e # n /\ ~ HasLabel(ns[e], NoteLabel)}

\* the relationships the two MERGE clauses of link_query ask for
LinkRels(ns, title) ==
    {[type |-> "EXTRACTED_FROM", from |-> row[2], to |-> row[1]] :
        row \in LinkRows(ns, title)}
    \cup
    {[type |-> "APPEARS_IN", from |-> row[1], to |-> row[2]] :
        row \in LinkRows(ns, title)}

\* variant: CREATE in place of MERGE, a relationship is added on every run
LinkQueryCreate(ns, rs, title) == rs (+) SetToBag(LinkRels(ns, title))

\* the store after link_query
LinkQuery(ns, rs, title) ==
    rs (+) SetToBag({r \in LinkRels(ns, title) : ~ BagIn(r, rs)})

\* variant: the note is not looked up first and the query matches the source
\* records of every title
link_entities_to_any_note(ns, rs, title) ==
    LET titles == {ns[i].title : i \in {k \in 1..Len(ns) :
                                            /\ HasLabel(ns[k], NoteLabel)
                                            /\ "title" \in DOMAIN ns[k]}}
    IN  rs (+) SetToBag({r \in UNION {LinkRels(ns, t) : t \in titles} :
                            ~ BagIn(r, rs)})

\* _link_entities_to_note: nothing is changed when the note is not found
link_entities_to_note(ns, rs, title) ==
    IF MatchNote(ns, title) = {} THEN rs ELSE LinkQuery(ns, rs, title)

(* ------------------------------- stats -------------------------------- *)
\* dict[k] = v
Put(f, k, v) == [x \in DOMAIN f \cup {k} |-> IF x = k THEN v ELSE f[x]]

\* the rows of "MATCH (n) RETURN labels(n), count(n)": one per label list
LabelGroups(ns) == {ns[i].labels : i \in 1..Len(ns)}
GroupCount(ns, ls) == Cardinality({i \in 1..Len(ns) : ns[i].labels = ls})

\* the orders in which a result may deliver the rows of a set
Orderings(S) ==
    {o \in [1..Cardinality(S) -> S] :
        \A i, j \in 1..Cardinality(S) : i # j => o[i] # o[j]}

RECURSIVE NodeCounts(_, _, _)
\* the loop over the node rows: node_counts[labels[0]] = count
NodeCounts(ns, order, acc) ==
    IF order = << >> THEN acc
    ELSE NodeCounts(ns, Tail(order),
            IF Head(order) # << >>
            THEN Put(acc, Head(order)[1], GroupCount(ns, Head(order)))
            ELSE acc)

\* the loop over the relationship rows: rel_counts[rel_type] = count
RelTypes(rs) == {r.type : r \in BagToSet(rs)}
RelTypeCount(rs, t) ==
    LET S == {r \in BagToSet(rs) : r.type = t}
        RECURSIVE Sum(_)
        Sum(T) == IF T = {} THEN 0
                  ELSE LET r == CHOOSE r \in T : TRUE
                       IN  CopiesIn(r, rs) + Sum(T \ {r})
    IN  Sum(S)
RelCounts(rs) == [t \in RelTypes(rs) |-> RelTypeCount(rs, t)]

\* get_graph_stats with the node rows delivered in the given order
get_graph_stats(ns, rs, order) ==
    [nodes         |-> NodeCounts(ns, order, << >>),
     relationships |-> RelCounts(rs)]

(* ------------------------------ the vault ----------------------------- *)
\* settings.obsidian_vault_path, as path components
VaultRoot == << <<"v">> >>

\* directory entries a vault may hold: rel is the path below the root
EntryPlain  == [rel |-> << <<"a", ".", "m", "d">> >>,
                content |-> <<"x">>, readable |-> TRUE]
EntryHead   == [rel |-> << <<"d">>, <<"b", ".", "m", "d">> >>,
                content |-> <<"#", " ", "a", " ", "\n", "z">>, readable |-> TRUE]
EntryLong   == [rel |-> << <<"c", ".", "m", "d">> >>,
                content |-> Repeat("y", PreviewLen + 1), readable |-> TRUE]
EntryHidden == [rel |-> << <<".", "t">>, <<"e", ".", "m", "d">> >>,
                content |-> <<"h">>, readable |-> TRUE]
EntryCatalog == {EntryPlain, EntryHead, EntryLong, EntryHidden}

\* further directory entries: a dot file, a file that is not markdown, and
\* a markdown file whose open() or read() raises
EntryDotFile == [rel |-> << <<".", "h", ".", "m", "d">> >>,
                 content |-> <<"h">>, readable |-> TRUE]
EntryText    == [rel |-> << <<"n", ".", "t", "x", "t">> >>,
                 content |-> <<"x">>, readable |-> TRUE]
EntryLocked  == [rel |-> << <<"d">>, <<"u", ".", "m", "d">> >>,
                 content |-> << >>, readable |-> FALSE]

\* a vault directory holds any of them; one that does not exist holds none
Disks ==
    {[exists |-> FALSE, root |-> VaultRoot, entries |-> {}]}
    \cup {[exists |-> TRUE, root |-> VaultRoot, entries |-> es] :
            es \in {S \in SUBSET EntryCatalog : Cardinality(S) <= MaxFiles}}

\* the vaults of the free caller: at most one file that can be read and one
\* that cannot
ApiDisks ==
    {[exists |-> FALSE, root |-> VaultRoot, entries |-> {}]}
    \cup {[exists |-> TRUE, root |-> VaultRoot, entries |-> es] :
            es \in SUBSET {EntryHead, EntryLocked}}

\* the vaults that are ingested again and again: two files that share a title
RerunDisks == {d \in Disks : d.exists /\ d.entries \subseteq {EntryPlain, EntryHead}}

\* the parameters _create_note_node hands to its query
UpsertParams(file_data) ==
    [title           |-> file_data.title,
     file_path       |-> file_data.file_path,
     relative_path   |-> file_data.relative_path,
     content_preview |-> ContentPreview(file_data.content)]

\* what an earlier ingestion of another vault may have left in the store
EarlierFile == VaultFileOf(VaultRoot, EntryLong)

\* --batch-size is any integer: argparse sets no minimum
BatchSizes == (0 - 1)..MaxBatchSize

\* what one extraction call may label a node it writes
ExtractLabels == {entities[1], entities[Len(entities)]}

(* ------------------------------- state -------------------------------- *)
VARIABLES
    disk,         \* the vault directory (never written)
    driver,       \* self.driver: "none", "open" or "closed"
    pipeline,     \* self.pipeline is set
    caller,       \* position of main(); or, for a free caller, "api" when it
                  \* is plain code and "coroutine" when it runs in an event loop
    pc,           \* state of create_knowledge_graph
    outcome,      \* the call last begun: [op, error, value]; error is
                  \* "pending" while it runs and "none" once it has returned
    runs,         \* calls of create_knowledge_graph so far
    batch_size,   \* argument of the current call
    vault_files,  \* list returned by read_vault_files
    file_batches, \* list(batched(vault_files, batch_size))
    batch_no,     \* position of the for loop over file_batches
    progress,     \* completed steps of the progress bar
    task,         \* state of the task of document <<batch, index>>
    extracted,    \* node ids each task's extraction call has written
    nodes,        \* store: sequence of nodes
    rels,         \* store: bag of relationships
    console,      \* lines printed by the call in progress or last finished
    touched,      \* what the current call has accessed: "vault", "store"
    lastUpsert,   \* per title, the file of the latest executed upsert
    trace,        \* the phases of the batch loop passed by the current call
    steps,        \* per task, the steps of _process_single_file executed so far
    sessions      \* number of store sessions that are open

vars == <<disk, driver, pipeline, caller, pc, outcome, runs, batch_size,
          vault_files, file_batches, batch_no, progress, task, extracted,
          nodes, rels, console, touched, lastUpsert, trace, steps,
          sessions>>

store == <<nodes, rels, lastUpsert>>

\* datetime(): the time of the store, which advances from call to call
Now == runs
run   == <<batch_size, vault_files, file_batches, batch_no, progress, task,
           extracted, touched, trace, steps>>

\* a task is "none" before its batch is dispatched, then "created", then
\* "extracting" while run_async is awaited; its result is "ok" or the
\* exception _process_single_file raised, named by the step that failed
Errors == {"upsert_error", "extraction_error", "linking_error"}
Settled == {"ok"} \cup Errors
InFlight == {"created", "extracting"}

TaskIds(fb) == {<<k, j>> \in (1..Len(fb)) \X (1..MaxFiles + 1) :
                  j <= Len(fb[k])}
FileOf(id) == file_batches[id[1]][id[2]]

\* callers that use the object in any order: a script (clear_kg.py) and a
\* coroutine run by asyncio.run (test_note_linking.py)
FreeCallers == {"api", "coroutine"}

\* no call is in progress and the caller is not inside a session block
Quiescent == pc \in {"idle", "done", "raised"} /\ sessions = 0
MayCall(op) == Quiescent /\ caller \in FreeCallers \cup {op}

\* the statement of main() that follows a call
MainNext(op, raised) ==
    IF raised THEN "finally"
    ELSE CASE op = "connect"    -> "setup"
           [] op = "setup"      -> "create"
           [] op = "create"     -> "stats"
           [] op = "stats"      -> "finally"
           [] op = "finally"    -> "exit"
CallerAfter(op, raised) ==
    IF caller \in FreeCallers THEN caller ELSE MainNext(op, raised)

NoValue == << >>
Ended(op, error, value) == [op |-> op, error |-> error, value |-> value]

\* the object after __init__
Fresh ==
    /\ driver = "none"
    /\ pipeline = FALSE
    /\ pc = "idle"
    /\ outcome = Ended("init", "none", NoValue)
    /\ runs = 0
    /\ batch_size = 1
    /\ vault_files = << >>
    /\ file_batches = << >>
    /\ batch_no = 0
    /\ progress = 0
    /\ task = << >>
    /\ extracted = << >>
    /\ console = << >>
    /\ touched = {}
    /\ trace = << >>
    /\ steps = << >>
    /\ sessions = 0

EmptyStore ==
    /\ nodes = << >>
    /\ rels = EmptyBag
    /\ lastUpsert = << >>

\* a store that holds the source record of one earlier upsert
EarlierStore ==
    /\ nodes = << NoteNode(EarlierFile, 0) >>
    /\ rels = EmptyBag
    /\ lastUpsert = Put(<< >>, EarlierFile.title, UpsertParams(EarlierFile))

\* the program main() on an empty store
Init ==
    /\ disk \in Disks
    /\ caller = "validate"
    /\ Fresh
    /\ EmptyStore

(* ------------------------------ sessions ------------------------------ *)
\* variant: the session is closed on the normal path only
WithSessionNoCleanup(open, raised) == IF raised THEN open + 1 ELSE open

\* with self.driver.session() as session: the session is opened, the body
\* runs, and the context manager closes the session on return and on raise
WithSession(open, raised) == (open + 1) - 1

(* ------------------------- main() and lifecycle ----------------------- *)
\* main(): the vault path is validated before anything is constructed
MainValidate ==
    /\ caller = "validate"
    /\ caller' = IF disk.exists THEN "connect" ELSE "exit"
    /\ outcome' = Ended("validate", IF disk.exists THEN "none" ELSE "vault path",
                        NoValue)
    /\ UNCHANGED <<disk, driver, pipeline, pc, runs, run, store, console, sessions>>

connect ==
    /\ MayCall("connect")
    /\ driver' = "open"
    /\ outcome' = Ended("connect", "none", NoValue)
    /\ caller' = CallerAfter("connect", FALSE)
    /\ UNCHANGED <<disk, pipeline, pc, runs, run, store, console, sessions>>

disconnect ==
    /\ MayCall("finally")
    /\ driver' = IF driver = "none" THEN "none" ELSE "closed"
    /\ outcome' = Ended("disconnect", "none", NoValue)
    /\ caller' = CallerAfter("finally", FALSE)
    /\ UNCHANGED <<disk, pipeline, pc, runs, run, store, console, sessions>>

\* variant: the check of self.driver is missing
setup_pipeline_unchecked ==
    /\ MayCall("setup")
    /\ outcome' = Ended("setup_pipeline", "none", NoValue)
    /\ caller' = CallerAfter("setup", FALSE)
    /\ pipeline' = TRUE
    /\ UNCHANGED <<disk, driver, pc, runs, run, store, console, sessions>>

setup_pipeline ==
    /\ MayCall("setup")
    /\ IF driver = "none"
       THEN /\ outcome' = Ended("setup_pipeline", "RuntimeError", NoValue)
            /\ caller' = CallerAfter("setup", TRUE)
            /\ UNCHANGED pipeline
       ELSE /\ outcome' = Ended("setup_pipeline", "none", NoValue)
            /\ caller' = CallerAfter("setup", FALSE)
            /\ pipeline' = TRUE
    /\ UNCHANGED <<disk, driver, pc, runs, run, store, console, sessions>>

GetGraphStats ==
    /\ MayCall("stats")
    /\ IF driver = "none"
       THEN /\ outcome' = Ended("get_graph_stats", "RuntimeError", NoValue)
            /\ caller' = CallerAfter("stats", TRUE)
            /\ UNCHANGED sessions
       ELSE /\ \E order \in Orderings(LabelGroups(nodes)) :
                  outcome' = Ended("get_graph_stats", "none",
                                   get_graph_stats(nodes, rels, order))
            /\ caller' = CallerAfter("stats", FALSE)
            /\ sessions' = WithSession(sessions, FALSE)
    /\ UNCHANGED <<disk, driver, pipeline, pc, runs, run, store, console>>

(* ----------------------- create_knowledge_graph ----------------------- *)
Say(line) == console' = Append(console, line)

\* the call ends: by return (error "none") or by an exception
EndCall(error) ==
    /\ pc' = IF error = "none" THEN "done" ELSE "raised"
    /\ outcome' = Ended("create_knowledge_graph", error, NoValue)
    /\ caller' = CallerAfter("create", error # "none")

\* entry of create_knowledge_graph: the pipeline check
CreateKnowledgeGraph(size) ==
    /\ MayCall("create")
    /\ runs < MaxRuns
    /\ runs' = runs + 1
    /\ batch_size' = size
    /\ touched' = {}
    /\ vault_files' = << >>
    /\ file_batches' = << >>
    /\ batch_no' = 0
    /\ progress' = 0
    /\ task' = << >>
    /\ extracted' = << >>
    /\ trace' = << >>
    /\ steps' = << >>
    /\ console' = << >>
    /\ IF ~ pipeline
       THEN EndCall("RuntimeError")
       ELSE /\ pc' = "reading"
            /\ outcome' = Ended("create_knowledge_graph", "pending", NoValue)
            /\ UNCHANGED caller
    /\ UNCHANGED <<disk, driver, pipeline, store, sessions>>

\* the entries read_vault_files opens
Opened(d) ==
    {e \in d.entries :
        /\ EndsWith(e.rel[Len(e.rel)], MdSuffix)
        /\ ~ \E c \in 1..Len(d.root \o e.rel) : IsHidden((d.root \o e.rel)[c])}

RECURSIVE ReadWarnings(_, _)
\* the except branch of the loop: one warning per file that cannot be read
ReadWarnings(root, entries) ==
    IF entries = << >> THEN << >>
    ELSE (IF Head(entries) \in Opened([root |-> root, entries |-> {Head(entries)}])
             /\ ~ Head(entries).readable
          THEN << [msg |-> "Warning: Could not read",
                   title |-> JoinPath(root \o Head(entries).rel)] >>
          ELSE << >>)
         \o ReadWarnings(root, Tail(entries))

\* vault_files = self.read_vault_files(), which prints its warnings; return
\* when there is no file
Reading ==
    /\ pc = "reading"
    /\ IF ~ disk.exists
       THEN /\ EndCall("FileNotFoundError")
            /\ UNCHANGED <<vault_files, touched, console>>
       ELSE /\ \E listing \in Orderings(disk.entries) :
                  /\ vault_files' = read_vault_files(disk.root, listing)
                  /\ IF vault_files' = << >>
                     THEN /\ console' = console
                                \o ReadWarnings(disk.root, listing)
                                \o << [msg |-> "No markdown files found",
                                       title |-> << >>] >>
                          /\ EndCall("none")
                     ELSE /\ console' = console
                                \o ReadWarnings(disk.root, listing)
                          /\ pc' = "batching"
                          /\ UNCHANGED <<outcome, caller>>
            /\ touched' = IF Opened(disk) = {} THEN touched
                          ELSE touched \cup {"vault"}
    /\ UNCHANGED <<disk, driver, pipeline, runs, batch_size, file_batches, trace,
                   batch_no, progress, task, extracted, store, steps, sessions>>

\* asyncio.run(...), which refuses to start inside a running event loop,
\* and file_batches = list(batched(vault_files, batch_size)), inside the try
Batching ==
    /\ pc = "batching"
    /\ IF caller = "coroutine"
       THEN /\ Say([msg |-> "Error creating knowledge graph", title |-> << >>])
            /\ EndCall("RuntimeError")
            /\ UNCHANGED <<file_batches, batch_no, task, extracted, steps>>
       ELSE IF batch_size < 1
       THEN /\ Say([msg |-> "Error creating knowledge graph", title |-> << >>])
            /\ EndCall("ValueError")
            /\ UNCHANGED <<file_batches, batch_no, task, extracted, steps>>
       ELSE /\ file_batches' = batched(vault_files, batch_size)
            /\ batch_no' = 1
            /\ task' = [id \in TaskIds(batched(vault_files, batch_size)) |-> "none"]
            /\ extracted' = [id \in TaskIds(batched(vault_files, batch_size)) |-> {}]
            /\ steps' = [id \in TaskIds(batched(vault_files, batch_size)) |-> << >>]
            /\ pc' = "dispatching"
            /\ UNCHANGED <<outcome, caller, console>>
    /\ UNCHANGED <<disk, driver, pipeline, runs, batch_size, vault_files, trace,
                   progress, touched, store, sessions>>

\* _process_batch_concurrently: one task per file of the batch is created
Dispatching ==
    /\ pc = "dispatching"
    /\ task' = [id \in DOMAIN task |->
                  IF id[1] = batch_no THEN "created" ELSE task[id]]
    /\ pc' = "awaiting"
    /\ trace' = Append(trace, [phase |-> "dispatched", batch |-> batch_no])
    /\ UNCHANGED <<disk, driver, pipeline, caller, outcome, runs, batch_size,
                   vault_files, file_batches, batch_no, progress, extracted,
                   touched, store, console, steps, sessions>>

\* variant: a task that fails cancels the tasks of its batch still in flight
SettleCancelsSiblings(t, id, result) ==
    [x \in DOMAIN t |->
        IF x = id THEN result
        ELSE IF result \in Errors /\ x[1] = id[1] /\ t[x] \in InFlight
             THEN "cancelled" ELSE t[x]]

\* a task finishes with a result; the other tasks are left as they are
Settle(t, id, result) == [t EXCEPT ![id] = result]

\* the event loop starts tasks in the order gather created them
NextToStart(id) ==
    /\ task[id] = "created"
    /\ \A other \in DOMAIN task :
          (other[1] = id[1] /\ other[2] < id[2]) => task[other] # "created"

\* a task starts: _create_note_node succeeds, run_async is awaited
StartTask(id) ==
    /\ NextToStart(id)
    /\ driver # "none"
    /\ nodes' = MergeNote(nodes, FileOf(id), Now)
    /\ lastUpsert' = Put(lastUpsert, FileOf(id).title, UpsertParams(FileOf(id)))
    /\ touched' = touched \cup {"store"}
    /\ task' = [task EXCEPT ![id] = "extracting"]
    /\ steps' = [steps EXCEPT ![id] = Append(@, "upsert")]
    /\ sessions' = WithSession(sessions, FALSE)
    /\ UNCHANGED <<disk, driver, pipeline, caller, pc, outcome, runs, trace,
                   batch_size, vault_files, file_batches, batch_no, progress,
                   extracted, rels, console>>

\* a task starts and _create_note_node raises: the store is not changed
StartTaskFails(id) ==
    /\ NextToStart(id)
    /\ task' = Settle(task, id, "upsert_error")
    /\ touched' = touched \cup {"store"}
    /\ steps' = [steps EXCEPT ![id] = Append(@, "upsert_failed")]
    /\ sessions' = IF driver = "open" THEN WithSession(sessions, TRUE)
                   ELSE sessions
    /\ UNCHANGED <<disk, driver, pipeline, caller, pc, outcome, runs, trace,
                   batch_size, vault_files, file_batches, batch_no, progress,
                   extracted, store, console>>

\* pipeline.run_async in progress: the collaborator's writer commits the
\* entity it found, once per call
ExtractionWrites(id, label) ==
    /\ task[id] = "extracting"
    /\ extracted[id] = {}
    /\ nodes' = Append(nodes, [labels |-> << label >>, name |-> FileOf(id).title])
    /\ extracted' = [extracted EXCEPT ![id] = @ \cup {Len(nodes) + 1}]
    /\ UNCHANGED <<disk, driver, pipeline, caller, pc, outcome, runs, trace,
                   batch_size, vault_files, file_batches, batch_no, progress,
                   task, touched, rels, lastUpsert, console, steps, sessions>>

\* variant: a failed extraction is rolled back, the source record of the
\* document is detached and deleted and the ids behind it move up
ExtractionFailsRollsBack(id) ==
    LET n      == CHOOSE i \in MatchNote(nodes, FileOf(id).title) : TRUE
        up(i)  == IF i > n THEN i - 1 ELSE i
        mv(r)  == [type |-> r.type, from |-> up(r.from), to |-> up(r.to)]
        keep   == {r \in BagToSet(rels) : r.from # n /\ r.to # n}
    IN  /\ task[id] = "extracting"
        /\ task' = Settle(task, id, "extraction_error")
        /\ nodes' = [i \in 1..(Len(nodes) - 1) |->
                       IF i < n THEN nodes[i] ELSE nodes[i + 1]]
        /\ rels' = [r \in {mv(x) : x \in keep} |->
                      CopiesIn(CHOOSE x \in keep : mv(x) = r, rels)]
        /\ extracted' = [x \in DOMAIN extracted |->
                           {up(e) : e \in extracted[x]}]
        /\ steps' = [steps EXCEPT ![id] = Append(@, "extraction_failed")]
        /\ UNCHANGED <<disk, driver, pipeline, caller, pc, outcome, runs, trace,
                       batch_size, vault_files, file_batches, batch_no,
                       progress, touched, lastUpsert, console, sessions>>

\* variant: the link step sits in a finally clause and runs after a failed
\* extraction as well
ExtractionFailsThenLinks(id) ==
    /\ task[id] = "extracting"
    /\ task' = Settle(task, id, "extraction_error")
    /\ rels' = link_entities_to_note(nodes, rels, FileOf(id).title)
    /\ steps' = [steps EXCEPT ![id] = @ \o <<"extraction_failed", "link">>]
    /\ sessions' = WithSession(sessions, FALSE)
    /\ UNCHANGED <<disk, driver, pipeline, caller, pc, outcome, runs, trace,
                   batch_size, vault_files, file_batches, batch_no, progress,
                   extracted, touched, nodes, lastUpsert, console>>

\* pipeline.run_async raises: the task ends with an exception
ExtractionFails(id) ==
    /\ task[id] = "extracting"
    /\ task' = Settle(task, id, "extraction_error")
    /\ steps' = [steps EXCEPT ![id] = Append(@, "extraction_failed")]
    /\ UNCHANGED <<disk, driver, pipeline, caller, pc, outcome, runs, trace,
                   batch_size, vault_files, file_batches, batch_no, progress,
                   extracted, touched, store, console, sessions>>

\* pipeline.run_async returns and _link_entities_to_note runs to its end
ExtractionReturns(id) ==
    /\ task[id] = "extracting"
    /\ rels' = link_entities_to_note(nodes, rels, FileOf(id).title)
    /\ console' = IF MatchNote(nodes, FileOf(id).title) = {}
                  THEN Append(console, [msg |-> "Warning: Note not found for linking",
                                        title |-> FileOf(id).title])
                  ELSE console
    /\ task' = Settle(task, id, "ok")
    /\ steps' = [steps EXCEPT ![id] = @ \o <<"extracted", "link">>]
    /\ sessions' = WithSession(sessions, FALSE)
    /\ UNCHANGED <<disk, driver, pipeline, caller, pc, outcome, runs, trace,
                   batch_size, vault_files, file_batches, batch_no, progress,
                   extracted, touched, nodes, lastUpsert>>

\* pipeline.run_async returns and a query of _link_entities_to_note raises
LinkingFails(id) ==
    /\ task[id] = "extracting"
    /\ task' = Settle(task, id, "linking_error")
    /\ steps' = [steps EXCEPT ![id] = @ \o <<"extracted", "link_failed">>]
    /\ sessions' = WithSession(sessions, TRUE)
    /\ UNCHANGED <<disk, driver, pipeline, caller, pc, outcome, runs, trace,
                   batch_size, vault_files, file_batches, batch_no, progress,
                   extracted, touched, store, console>>

\* the states of the tasks of batch k, in the order of the batch
Results(k) == [j \in 1..Len(file_batches[k]) |-> task[<<k, j>>]]

\* variant: the await resumes as soon as one task has settled
GatherReadyFirstCompleted(results) ==
    \E j \in 1..Len(results) : results[j] \notin InFlight \cup {"none"}

\* await asyncio.gather(...): resumes once every task has settled
GatherReady(results) ==
    \A j \in 1..Len(results) : results[j] \notin InFlight \cup {"none"}

\* variant: return_exceptions=False, the first exception is raised
gatherRaising(results) ==
    [raised  |-> \E j \in 1..Len(results) : results[j] \in Errors,
     results |-> results]

\* asyncio.gather(*tasks, return_exceptions=True): exceptions are results
gather(results) == [raised |-> FALSE, results |-> results]

RECURSIVE ErrorLines(_, _)
\* the loop over results: one line per result that is an exception
ErrorLines(batch, results) ==
    IF results = << >> THEN << >>
    ELSE (IF Head(results) \in Errors
          THEN << [msg |-> "Error processing file", title |-> Head(batch).title] >>
          ELSE << >>)
         \o ErrorLines(Tail(batch), Tail(results))

\* gather returns, failures are printed, the progress bar advances, and the
\* loop moves to the next batch or create_knowledge_graph returns
Reporting ==
    /\ pc = "awaiting"
    /\ GatherReady(Results(batch_no))
    /\ IF gather(Results(batch_no)).raised
       THEN /\ Say([msg |-> "Error creating knowledge graph", title |-> << >>])
            /\ EndCall("Exception")
            /\ UNCHANGED <<progress, batch_no, trace>>
       ELSE /\ progress' = progress + 1
            /\ trace' = Append(trace, [phase |-> "reported", batch |-> batch_no])
            /\ IF batch_no < Len(file_batches)
               THEN /\ batch_no' = batch_no + 1
                    /\ pc' = "dispatching"
                    /\ console' = console \o
                          ErrorLines(file_batches[batch_no],
                                     gather(Results(batch_no)).results)
                    /\ UNCHANGED <<outcome, caller>>
               ELSE /\ console' = console \o
                          ErrorLines(file_batches[batch_no],
                                     gather(Results(batch_no)).results)
                          \o << [msg |-> "Knowledge graph creation completed!",
                                 title |-> << >>] >>
                    /\ EndCall("none")
                    /\ UNCHANGED batch_no
    /\ UNCHANGED <<disk, driver, pipeline, runs, batch_size, vault_files,
                   file_batches, task, extracted, touched, store, steps,
                   sessions>>

\* the steps of create_knowledge_graph
RunNext ==
    \/ \E size \in BatchSizes : CreateKnowledgeGraph(size)
    \/ Reading
    \/ Batching
    \/ Dispatching
    \/ \E id \in DOMAIN task : StartTask(id)
    \/ \E id \in DOMAIN task : StartTaskFails(id)
    \/ \E id \in DOMAIN task, label \in ExtractLabels : ExtractionWrites(id, label)
    \/ \E id \in DOMAIN task : ExtractionFails(id)
    \/ \E id \in DOMAIN task : ExtractionReturns(id)
    \/ \E id \in DOMAIN task : LinkingFails(id)
    \/ Reporting

\* the statements of main() and the steps of the calls it makes
Next ==
    \/ MainValidate
    \/ connect
    \/ disconnect
    \/ setup_pipeline
    \/ GetGraphStats
    \/ RunNext

\* the program main() on an empty store
Spec == Init /\ [][Next]_vars

\* a connected, set-up object whose vault is ingested repeatedly
RerunInit ==
    /\ disk \in RerunDisks
    /\ caller = "api"
    /\ driver = "open"
    /\ pipeline = TRUE
    /\ pc = "idle"
    /\ outcome = Ended("setup_pipeline", "none", NoValue)
    /\ runs = 0
    /\ batch_size = 1
    /\ vault_files = << >>
    /\ file_batches = << >>
    /\ batch_no = 0
    /\ progress = 0
    /\ task = << >>
    /\ extracted = << >>
    /\ console = << >>
    /\ touched = {}
    /\ trace = << >>
    /\ steps = << >>
    /\ sessions = 0
    /\ EmptyStore \/ EarlierStore

RerunSpec == RerunInit /\ [][RunNext]_vars

(* --------------------- statistics of any store ------------------------ *)
\* most nodes of a store whose statistics are taken
MaxNodes == 3

\* the label lists the nodes of such a store carry
StatsLabelLists == {<< >>, <<"Person">>, <<"Person", "Topic">>, <<"Topic">>}

StatsNodes ==
    UNION {[1..n -> {[labels |-> ls, name |-> <<"n">>] : ls \in StatsLabelLists}] :
             n \in 0..MaxNodes}

StatsRel(t) == [type |-> t, from |-> 1, to |-> 1]
StatsRels(ns) ==
    IF ns = << >> THEN {EmptyBag}
    ELSE {EmptyBag,
          SetToBag({StatsRel("MENTIONS")}),
          SetToBag({StatsRel("MENTIONS")}) (+) SetToBag({StatsRel("MENTIONS")}),
          SetToBag({StatsRel("MENTIONS"), StatsRel("ABOUT")}),
          SetToBag({StatsRel("MENTIONS"), StatsRel("ABOUT")})
              (+) SetToBag({StatsRel("MENTIONS")})}

\* a connected object on a store with any content
StatsInit ==
    /\ disk \in {d \in Disks : d.entries = {}}
    /\ caller = "api"
    /\ driver = "open"
    /\ pipeline = FALSE
    /\ pc = "idle"
    /\ outcome = Ended("connect", "none", NoValue)
    /\ runs = 0
    /\ batch_size = 1
    /\ vault_files = << >>
    /\ file_batches = << >>
    /\ batch_no = 0
    /\ progress = 0
    /\ task = << >>
    /\ extracted = << >>
    /\ console = << >>
    /\ touched = {}
    /\ trace = << >>
    /\ steps = << >>
    /\ sessions = 0
    /\ nodes \in StatsNodes
    /\ rels \in StatsRels(nodes)
    /\ lastUpsert = << >>

StatsNext == GetGraphStats

StatsSpec == StatsInit /\ [][StatsNext]_vars

(* ============================ properties ============================== *)
\* the relationships that tie entity e to source record n
Linked(e, n) ==
    /\ BagIn([type |-> "EXTRACTED_FROM", from |-> e, to |-> n], rels)
    /\ BagIn([type |-> "APPEARS_IN", from |-> n, to |-> e], rels)

\* create_knowledge_graph has ended after entering the batch loop
RunEnded == pc \in {"done", "raised"} /\ file_batches # << >>

\* C1: batches are processed strictly sequentially: no task of a later batch
\* has begun unless every task of every earlier batch has settled, by
\* success or by failure.
BatchesSequential ==
    \A a, b \in DOMAIN task :
        (a[1] < b[1] /\ task[b] # "none") => task[a] \in Settled

\* a later batch is running after a task of an earlier batch failed
BatchesSequentialWitness ==
    \E a, b \in DOMAIN task :
        /\ a[1] < b[1]
        /\ task[a] \in Errors
        /\ task[b] = "extracting"
        /\ Len(file_batches[a[1]]) > 1

\* C2: a failing extraction does not cancel the tasks of its batch: when the
\* run has ended every task of every batch has run to its own result, every
\* document whose upsert succeeded has its source record, and every document
\* whose task succeeded is linked to the entities its extraction wrote that
\* are not source records.
FailureIsolation ==
    RunEnded =>
        \A id \in DOMAIN task :
            /\ task[id] \in Settled
            /\ task[id] # "upsert_error" =>
                  MatchNote(nodes, FileOf(id).title) # {}
            /\ task[id] = "ok" =>
                  \A n \in MatchNote(nodes, FileOf(id).title) :
                  \A e \in extracted[id] :
                      ~ HasLabel(nodes[e], NoteLabel) => Linked(e, n)

\* one extraction of a batch failed, a sibling was linked to its entity and
\* a document of a later batch succeeded as well
FailureIsolationWitness ==
    /\ RunEnded
    /\ \E a, b, c \in DOMAIN task :
          /\ a[1] = b[1] /\ b[1] < c[1]
          /\ task[a] = "extraction_error"
          /\ task[b] = "ok"
          /\ \E e \in extracted[b] : ~ HasLabel(nodes[e], NoteLabel)
          /\ task[c] = "ok"

\* C3: a failure inside a document's task never leaves the batch loop: a
\* call that entered the batch loop returns normally after the last batch,
\* prints the completion line, and main() goes on to get_graph_stats.
NoFailurePropagates ==
    (/\ outcome.op = "create_knowledge_graph"
     /\ outcome.error # "pending"
     /\ file_batches # << >>)
    => /\ outcome.error = "none"
       /\ pc = "done"
       /\ progress = Len(file_batches)
       /\ console[Len(console)].msg = "Knowledge graph creation completed!"
       /\ caller = "stats"

\* a call has returned although an upsert, an extraction and a linking failed
NoFailurePropagatesWitness ==
    /\ outcome.op = "create_knowledge_graph"
    /\ outcome.error = "none"
    /\ caller = "stats"
    /\ \A err \in Errors : \E id \in DOMAIN task : task[id] = err

\* C4: every node an extraction call wrote for a document whose task has
\* succeeded is tied to that document's source record by EXTRACTED_FROM and
\* by APPEARS_IN, whatever configured label the node carries.
EveryEntityTraceable ==
    \A id \in DOMAIN task :
        task[id] = "ok" =>
            /\ MatchNote(nodes, FileOf(id).title) # {}
            /\ \A n \in MatchNote(nodes, FileOf(id).title) :
               \A e \in extracted[id] : Linked(e, n)

\* the nodes that are source records: label Note and a title
SourceRecords ==
    {i \in 1..Len(nodes) :
        HasLabel(nodes[i], NoteLabel) /\ "title" \in DOMAIN nodes[i]}

\* C5: the upsert is idempotent by title: the store holds at most one source
\* record per title, exactly one for a title that was upserted, and its
\* file_path, relative_path and content_preview are those handed to the
\* latest executed upsert of that title.
UpsertIdempotent ==
    /\ \A i, j \in SourceRecords :
          nodes[i].title = nodes[j].title => i = j
    /\ \A t \in DOMAIN lastUpsert :
          /\ Cardinality(MatchNote(nodes, t)) = 1
          /\ \A i \in MatchNote(nodes, t) :
                /\ nodes[i].file_path = lastUpsert[t].file_path
                /\ nodes[i].relative_path = lastUpsert[t].relative_path
                /\ nodes[i].content_preview = lastUpsert[t].content_preview

\* in a second run two files of one batch that share a title have both been
\* upserted, beside the source record of another title
UpsertIdempotentWitness ==
    /\ runs = 2
    /\ Cardinality(SourceRecords) = 2
    /\ \E a, b \in DOMAIN task :
          /\ a[1] = b[1] /\ a[2] < b[2]
          /\ FileOf(a).title = FileOf(b).title
          /\ FileOf(a).file_path # FileOf(b).file_path
          /\ task[a] \in {"extracting", "ok"}
          /\ task[b] \in {"extracting", "ok"}

\* C6: every EXTRACTED_FROM and APPEARS_IN relationship joins two different
\* nodes of which exactly one is a source record: EXTRACTED_FROM leads from
\* a node that is none to a source record, APPEARS_IN the other way.
LinkingSeparatesSources ==
    \A r \in BagToSet(rels) :
        /\ r.type = "EXTRACTED_FROM" =>
              /\ r.from # r.to
              /\ ~ HasLabel(nodes[r.from], NoteLabel)
              /\ HasLabel(nodes[r.to], NoteLabel)
        /\ r.type = "APPEARS_IN" =>
              /\ r.from # r.to
              /\ HasLabel(nodes[r.from], NoteLabel)
              /\ ~ HasLabel(nodes[r.to], NoteLabel)

\* links exist in a store that holds two source records
LinkingSeparatesSourcesWitness ==
    /\ Cardinality(SourceRecords) = 2
    /\ \E id \in DOMAIN task :
          /\ task[id] = "ok"
          /\ \E r \in BagToSet(rels) :
                r.type = "APPEARS_IN" /\ r.from \in MatchNote(nodes, FileOf(id).title)

\* C7: a call with a batch size below 1 accesses neither the vault nor the
\* store and ends by raising.
InvalidBatchSizeRejectedFirst ==
    (outcome.op = "create_knowledge_graph" /\ batch_size < 1) =>
        /\ touched = {}
        /\ outcome.error # "none"

\* C8: at most batch_size documents are in flight at any moment (none at
\* all in a call whose batch size is below 1, which starts no task), and
\* they all belong to one batch.
InFlightBounded ==
    /\ Cardinality({id \in DOMAIN task : task[id] \in InFlight})
          <= (IF batch_size < 1 THEN 0 ELSE batch_size)
    /\ \A a, b \in DOMAIN task :
          (task[a] \in InFlight /\ task[b] \in InFlight) => a[1] = b[1]

\* a whole batch of two is in flight while another document waits its turn
InFlightBoundedWitness ==
    /\ batch_size = 2
    /\ Cardinality({id \in DOMAIN task : task[id] = "extracting"}) = 2
    /\ \E id \in DOMAIN task : task[id] = "none"

\* C9, part 1: the pipeline is set only once a connection was established
PipelineNeedsDriver == pipeline => driver # "none"

\* C9, part 2: a call of create_knowledge_graph without a connection or
\* without a pipeline raises at once, reads no file and leaves the store
PreconditionStep ==
    (runs' # runs /\ (driver = "none" \/ ~ pipeline)) =>
        /\ pc' = "raised"
        /\ outcome' = Ended("create_knowledge_graph", "RuntimeError", NoValue)
        /\ touched' = {}
        /\ vault_files' = << >>
        /\ nodes' = nodes
        /\ rels' = rels

\* C9: a fatal precondition aborts before Reading begins, in whatever order
\* connect, disconnect, setup_pipeline and create_knowledge_graph are called.
FatalPreconditionAborts == []PipelineNeedsDriver /\ [][PreconditionStep]_vars

\* the call raised on an object that was never connected, in front of a
\* vault with a file to read
FatalPreconditionAbortsWitness ==
    /\ outcome = Ended("create_knowledge_graph", "RuntimeError", NoValue)
    /\ driver = "none"
    /\ Opened(disk) # {}

\* the primary labels of a store and the nodes that carry each
PrimaryLabels(ns) ==
    {ns[i].labels[1] : i \in {k \in 1..Len(ns) : ns[k].labels # << >>}}
PrimaryCount(ns, l) ==
    Cardinality({i \in 1..Len(ns) : ns[i].labels # << >> /\ ns[i].labels[1] = l})

\* C10: get_graph_stats returns for every primary label the number of nodes
\* that carry it first, and for every relationship type the number of
\* relationships of that type; both mappings are empty on an empty store.
StatsByPrimaryLabel ==
    (outcome.op = "get_graph_stats" /\ outcome.error = "none") =>
        /\ DOMAIN outcome.value.nodes = PrimaryLabels(nodes)
        /\ \A l \in PrimaryLabels(nodes) :
              outcome.value.nodes[l] = PrimaryCount(nodes, l)
        /\ DOMAIN outcome.value.relationships = {r.type : r \in BagToSet(rels)}
        /\ \A t \in DOMAIN outcome.value.relationships :
              outcome.value.relationships[t] =
                 BagCardinality([r \in {x \in BagToSet(rels) : x.type = t} |-> rels[r]])

(* ------------------ read_vault_files called on its own ---------------- *)
\* vault directories in other places: below a directory whose name starts
\* with a dot, and given relative to a parent directory
RootUnderDotDir == << <<".", "k">>, <<"v">> >>
RootViaParent   == << <<".", ".">>, <<"v">> >>
ReaderRoots == {VaultRoot, RootUnderDotDir, RootViaParent}

ReaderCatalog == {EntryPlain, EntryHead, EntryHidden, EntryDotFile, EntryText,
                  EntryLocked}

ReaderDisks ==
    {[exists |-> FALSE, root |-> VaultRoot, entries |-> {}]}
    \cup {[exists |-> TRUE, root |-> r, entries |-> es] :
            r \in ReaderRoots,
            es \in {S \in SUBSET ReaderCatalog : Cardinality(S) <= MaxFiles}}

\* a call of read_vault_files by a free caller
ReadVaultFiles ==
    /\ MayCall("read")
    /\ IF ~ disk.exists
       THEN /\ outcome' = Ended("read_vault_files", "FileNotFoundError", NoValue)
            /\ console' = << >>
       ELSE \E listing \in Orderings(disk.entries) :
               /\ outcome' = Ended("read_vault_files", "none",
                                   read_vault_files(disk.root, listing))
               /\ console' = ReadWarnings(disk.root, listing)
    /\ UNCHANGED <<disk, driver, pipeline, caller, pc, runs, run, store, sessions>>

ReaderInit ==
    /\ disk \in ReaderDisks
    /\ caller = "api"
    /\ Fresh
    /\ EmptyStore

ReaderNext == ReadVaultFiles

ReaderSpec == ReaderInit /\ [][ReaderNext]_vars

\* the entries below the root that are markdown files, readable, and have no
\* dot-prefixed component in their path relative to the root
VisibleBelowRoot(d) ==
    {e \in d.entries :
        /\ EndsWith(e.rel[Len(e.rel)], MdSuffix)
        /\ e.readable
        /\ \A i \in 1..Len(e.rel) : e.rel[i][1] # "."}

\* C11: read_vault_files returns one document for exactly the readable .md
\* files whose path relative to the vault root has no component that starts
\* with a dot, whatever the components of the root's own path are.
ReaderIndependentOfRoot ==
    (outcome.op = "read_vault_files" /\ outcome.error = "none") =>
        /\ Len(outcome.value) = Cardinality(VisibleBelowRoot(disk))
        /\ {outcome.value[i].relative_path : i \in 1..Len(outcome.value)}
              = {JoinPath(e.rel) : e \in VisibleBelowRoot(disk)}

(* ------------------------- batches and their order -------------------- *)
RECURSIVE Flatten(_)
\* the groups of a list of groups, one after the other
Flatten(groups) ==
    IF groups = << >> THEN << >>
    ELSE Head(groups) \o Flatten(Tail(groups))

\* the batch numbers handed to _process_batch_concurrently, in that order
DispatchedBatches ==
    LET d == SelectSeq(trace, LAMBDA x : x.phase = "dispatched")
    IN  [i \in 1..Len(d) |-> d[i].batch]

\* the batch loop has been entered by the current call
InBatchLoop ==
    \/ pc \in {"dispatching", "awaiting"}
    \/ pc = "done" /\ vault_files # << >>

\* C12: the batches are groups of exactly batch_size files, except that the
\* last may be shorter but not empty; joined in order they are the list of
\* files read; and they are dispatched in that order, each exactly once, so
\* that at the end of the call every batch has been dispatched.
BatchesInOrder ==
    InBatchLoop =>
        /\ Flatten(file_batches) = vault_files
        /\ \A k \in 1..Len(file_batches) :
              /\ Len(file_batches[k]) >= 1
              /\ Len(file_batches[k]) <= batch_size
              /\ k < Len(file_batches) => Len(file_batches[k]) = batch_size
        /\ DispatchedBatches = [i \in 1..Len(DispatchedBatches) |-> i]
        /\ Len(DispatchedBatches) =
              (IF pc = "dispatching" THEN batch_no - 1 ELSE batch_no)
        /\ pc = "done" => Len(DispatchedBatches) = Len(file_batches)
        /\ \A id \in DOMAIN task :
              task[id] # "none" <=> id[1] <= Len(DispatchedBatches)

\* a call that ended after a full batch and a shorter last batch
BatchesInOrderWitness ==
    /\ pc = "done"
    /\ Len(file_batches) = 2
    /\ Len(file_batches[1]) = batch_size
    /\ Len(file_batches[2]) < batch_size
    /\ DispatchedBatches = <<1, 2>>

(* --------------------------- what a run reports ----------------------- *)
\* the lines of the console that name the file with the given title
LinesAbout(title) == {i \in 1..Len(console) : console[i].title = title}
ErrorLinesAbout(title) ==
    {i \in LinesAbout(title) : console[i].msg = "Error processing file"}

\* the tasks of the current call for files with the given title
TasksTitled(title) == {id \in DOMAIN task : FileOf(id).title = title}
FailedTasks == {id \in DOMAIN task : task[id] \in Errors}
FailedTitles == {FileOf(id).title : id \in FailedTasks}

\* C13: when a call has processed its batches, every document has one
\* recorded outcome: the titles reported as failed are those of the tasks
\* that raised, once per task, every other document is recorded as a success,
\* and the call ends with a count or a list of the failed titles.
OutcomePerDocument ==
    (pc = "done" /\ vault_files # << >>) =>
        \A title \in {FileOf(id).title : id \in DOMAIN task} :
            /\ Cardinality(ErrorLinesAbout(title))
                  = Cardinality(TasksTitled(title) \cap FailedTasks)
            /\ Cardinality(LinesAbout(title) \ ErrorLinesAbout(title))
                  = Cardinality(TasksTitled(title) \ FailedTasks)
            /\ \E i \in 1..Len(console) :
                  /\ "failed" \in DOMAIN console[i]
                  /\ \/ console[i].failed = FailedTitles
                     \/ console[i].failed = Cardinality(FailedTasks)

\* what of it the code does: one error line per task that raised, in the
\* order of the batches, and no line about any other document
OnlyFailuresReported ==
    (pc = "done" /\ vault_files # << >>) =>
        \A title \in {FileOf(id).title : id \in DOMAIN task} :
            /\ Cardinality(ErrorLinesAbout(title))
                  = Cardinality(TasksTitled(title) \cap FailedTasks)
            /\ LinesAbout(title) = ErrorLinesAbout(title)

(* ---------------------- the steps of one document --------------------- *)
LinkSteps == {"link", "link_failed"}
FailedBefore == {"upsert_failed", "extraction_failed"}

\* C14: in the task of one document the link step is executed only after
\* the extraction call of that document has returned; a task whose upsert
\* or extraction raised never executes its link step.
LinkOnlyAfterExtraction ==
    \A id \in DOMAIN steps :
        /\ \A i \in 1..Len(steps[id]) :
              steps[id][i] \in LinkSteps =>
                 /\ \E j \in 1..(i - 1) : steps[id][j] = "extracted"
                 /\ \A j \in 1..(i - 1) : steps[id][j] \notin FailedBefore
        /\ task[id] \in {"upsert_error", "extraction_error"} =>
              \A i \in 1..Len(steps[id]) : steps[id][i] \notin LinkSteps

\* one task of a batch has linked after its extraction while the extraction
\* of another has raised
LinkOnlyAfterExtractionWitness ==
    \E a \in DOMAIN steps, b \in DOMAIN steps :
        /\ a[1] = b[1]
        /\ steps[a] = <<"upsert", "extracted", "link">>
        /\ steps[b] = <<"upsert", "extraction_failed">>
        /\ task[b] = "extraction_error"
        /\ \E e \in extracted[a], n \in MatchNote(nodes, FileOf(a).title) :
              Linked(e, n)

(* ------------------------ whose entities are linked ------------------- *)
\* entity e was written by the extraction call of a document whose source
\* record is n
WrittenFor(e, n) ==
    \E id \in DOMAIN extracted :
        /\ e \in extracted[id]
        /\ n \in MatchNote(nodes, FileOf(id).title)

\* C15: in a run with batch size 1 on a store that was empty, every
\* EXTRACTED_FROM and every APPEARS_IN relationship ties an entity to the
\* source record of a document whose extraction call wrote that entity.
SequentialLinkingCorrect ==
    batch_size = 1 =>
        \A r \in BagToSet(rels) :
            /\ r.type = "EXTRACTED_FROM" => WrittenFor(r.from, r.to)
            /\ r.type = "APPEARS_IN" => WrittenFor(r.to, r.from)

(* ------------------- linking across the tasks of a batch -------------- *)
\* task b links while task a of the same batch is still inside its
\* extraction call: the entities a has written so far get tied to the
\* source record of b
CrossLinkStep ==
    \A a \in DOMAIN task, b \in DOMAIN task :
        (/\ DOMAIN task' = DOMAIN task
         /\ a # b /\ a[1] = b[1]
         /\ task[a] = "extracting" /\ task'[a] = "extracting"
         /\ task[b] = "extracting" /\ task'[b] = "ok") =>
            \A e \in extracted[a], n \in MatchNote(nodes, FileOf(b).title) :
                ~ HasLabel(nodes[e], NoteLabel) => Linked(e, n)'

\* C16: when the link step of a document B runs after the extraction of
\* another document A of the same batch has written entities and before
\* A's own link step, the source record of B gets EXTRACTED_FROM and
\* APPEARS_IN relationships with the entities only A has written; this
\* happens with B behind A in the batch and with B in front of A.
ConcurrentLinkingCrosses == [][CrossLinkStep]_vars

\* the state after such a link step of task b, task a not having linked
CrossLinked(a, b) ==
    /\ a[1] = b[1]
    /\ FileOf(a).title # FileOf(b).title
    /\ task[a] = "extracting"
    /\ steps[a] = <<"upsert">>
    /\ steps[b] = <<"upsert", "extracted", "link">>
    /\ \E e \in extracted[a] \ extracted[b] :
          \E n \in MatchNote(nodes, FileOf(b).title) : Linked(e, n)

\* B is the second file of the batch and A the first
ConcurrentLinkingCrossesWitness ==
    \E a \in DOMAIN task, b \in DOMAIN task : a[2] < b[2] /\ CrossLinked(a, b)

\* the same with A and B exchanged: B is the first file and A the second
ConcurrentLinkingCrossesExchanged ==
    \E a \in DOMAIN task, b \in DOMAIN task : a[2] > b[2] /\ CrossLinked(a, b)

(* -------------------------- repeated linking -------------------------- *)
LinkTypes == {"EXTRACTED_FROM", "APPEARS_IN"}

\* the titles of the source records in the store
NoteTitles ==
    {nodes[i].title : i \in {k \in 1..Len(nodes) :
                                /\ HasLabel(nodes[k], NoteLabel)
                                /\ "title" \in DOMAIN nodes[k]}}

\* C17: whatever link steps have been executed, the store holds at most one
\* EXTRACTED_FROM relationship from a node to a source record and at most
\* one APPEARS_IN relationship from a source record to a node, and a link
\* step repeated for a title on the store it has left changes nothing.
LinkIdempotent ==
    /\ \A r \in BagToSet(rels) : r.type \in LinkTypes => CopiesIn(r, rels) = 1
    /\ \A title \in NoteTitles :
          LET once == link_entities_to_note(nodes, rels, title)
          IN  link_entities_to_note(nodes, once, title) = once

\* in a second ingestion two documents of one title have both linked, over
\* an entity of the first ingestion that is tied to their source record
LinkIdempotentWitness ==
    /\ runs = 2
    /\ \E a \in DOMAIN steps, b \in DOMAIN steps :
          /\ a # b
          /\ FileOf(a).title = FileOf(b).title
          /\ steps[a] = <<"upsert", "extracted", "link">>
          /\ steps[b] = <<"upsert", "extracted", "link">>
          /\ \E e \in 1..Len(nodes), n \in MatchNote(nodes, FileOf(a).title) :
                /\ \A id \in DOMAIN extracted : e \notin extracted[id]
                /\ Linked(e, n)

(* --------------- _link_entities_to_note called on its own ------------- *)
\* the titles the link step is called with; no file has the last one
AbsentTitle == <<"b">>

\* the nodes of the stores it is called on: source records and entities
LinkSources == {VaultFileOf(VaultRoot, EntryPlain), EarlierFile}
LinkTitles == {f.title : f \in LinkSources} \cup {AbsentTitle}
LinkNodes ==
    {NoteNode(f, 0) : f \in LinkSources}
    \cup {[labels |-> << l >>, name |-> f.title] :
            l \in ExtractLabels, f \in {VaultFileOf(VaultRoot, EntryPlain)}}
LinkStores ==
    UNION {{ns \in [1..n -> LinkNodes] :
               \A i \in 1..n, j \in 1..n : ns[i] = ns[j] => i = j} :
           n \in 0..MaxNodes}

\* a call of _link_entities_to_note by a free caller
LinkEntitiesToNote(title) ==
    /\ MayCall("link")
    /\ IF driver = "none"
       THEN /\ outcome' = Ended("_link_entities_to_note", "RuntimeError", NoValue)
            /\ console' = << >>
            /\ UNCHANGED <<rels, sessions>>
       ELSE /\ rels' = link_entities_to_note(nodes, rels, title)
            /\ console' = IF MatchNote(nodes, title) = {}
                          THEN << [msg |-> "Warning: Note not found for linking",
                                   title |-> title] >>
                          ELSE << >>
            /\ outcome' = Ended("_link_entities_to_note", "none", NoValue)
            /\ sessions' = WithSession(sessions, FALSE)
    /\ UNCHANGED <<disk, driver, pipeline, caller, pc, runs, run, nodes,
                   lastUpsert>>

\* an object, connected or not, on a store of source records and entities
LinkInit ==
    /\ disk \in {d \in Disks : d.entries = {}}
    /\ caller = "api"
    /\ driver \in {"none", "open"}
    /\ pipeline = FALSE
    /\ pc = "idle"
    /\ outcome = Ended(IF driver = "none" THEN "init" ELSE "connect", "none",
                       NoValue)
    /\ runs = 0
    /\ batch_size = 1
    /\ vault_files = << >>
    /\ file_batches = << >>
    /\ batch_no = 0
    /\ progress = 0
    /\ task = << >>
    /\ extracted = << >>
    /\ console = << >>
    /\ touched = {}
    /\ trace = << >>
    /\ steps = << >>
    /\ sessions = 0
    /\ nodes \in LinkStores
    /\ rels = EmptyBag
    /\ lastUpsert = [t \in {f.title : f \in {g \in LinkSources :
                                               NoteNode(g, 0) \in
                                                 {nodes[i] : i \in 1..Len(nodes)}}}
                       |-> UpsertParams(CHOOSE f \in LinkSources : f.title = t)]

LinkNext == \E title \in LinkTitles : LinkEntitiesToNote(title)

LinkSpec == LinkInit /\ [][LinkNext]_vars

\* a call for a title without a source record, on a connected object
LinkOfAbsentTitle(title) ==
    /\ LinkEntitiesToNote(title)
    /\ driver # "none"
    /\ MatchNote(nodes, title) = {}

\* C18: a link step called for a title that has no source record prints a
\* warning, returns without an exception, and leaves every node and every
\* relationship of the store as it was.
MissingNoteSkipped ==
    [][\A title \in LinkTitles :
          LinkOfAbsentTitle(title) =>
             /\ nodes' = nodes
             /\ rels' = rels
             /\ outcome'.error = "none"
             /\ console' = << [msg |-> "Warning: Note not found for linking",
                               title |-> title] >>]_vars

\* the call has returned with its warning on a store that holds
\* relationships of earlier link steps
MissingNoteSkippedWitness ==
    /\ outcome = Ended("_link_entities_to_note", "none", NoValue)
    /\ console = << [msg |-> "Warning: Note not found for linking",
                     title |-> AbsentTitle] >>
    /\ MatchNote(nodes, AbsentTitle) = {}
    /\ rels # EmptyBag

(* ------------------------------ sessions ------------------------------ *)
\* C19: every store operation (upsert, link step, statistics) closes the
\* session it has opened before it returns, whether it returns or raises;
\* so no session is open while a task is suspended in its extraction call,
\* and none whenever control passes from one task to another.
NoSessionHeld == sessions = 0

\* a task is suspended in its extraction call, after its own upsert, while
\* the link step of another task of the batch has raised
NoSessionHeldWitness ==
    \E a \in DOMAIN steps, b \in DOMAIN steps :
        /\ a[1] = b[1]
        /\ steps[a] = <<"upsert", "extracted", "link_failed">>
        /\ task[b] = "extracting"
        /\ steps[b] = <<"upsert">>
        /\ sessions = 0

(* ---------------------------- termination ----------------------------- *)
\* the steps a call in progress takes by itself: the statements of the
\* coroutines, the tasks the event loop starts, and the end of every
\* extraction call, by return or by exception
RunStep ==
    \/ Reading
    \/ Batching
    \/ Dispatching
    \/ \E id \in DOMAIN task : StartTask(id)
    \/ \E id \in DOMAIN task : StartTaskFails(id)
    \/ \E id \in DOMAIN task : ExtractionFails(id)
    \/ \E id \in DOMAIN task : ExtractionReturns(id)
    \/ \E id \in DOMAIN task : LinkingFails(id)
    \/ Reporting

\* repeated ingestion, from an empty store, by plain code (main.py) or from
\* inside a coroutine (test_note_linking.py), where no call in progress
\* stops for ever: sequential code runs on, asyncio runs every task that is
\* ready, and every extraction call comes to an end
LiveInit ==
    /\ disk \in RerunDisks
    /\ caller \in FreeCallers
    /\ driver = "open"
    /\ pipeline = TRUE
    /\ pc = "idle"
    /\ outcome = Ended("setup_pipeline", "none", NoValue)
    /\ runs = 0
    /\ batch_size = 1
    /\ vault_files = << >>
    /\ file_batches = << >>
    /\ batch_no = 0
    /\ progress = 0
    /\ task = << >>
    /\ extracted = << >>
    /\ console = << >>
    /\ touched = {}
    /\ trace = << >>
    /\ steps = << >>
    /\ sessions = 0
    /\ EmptyStore

LiveSpec == LiveInit /\ [][RunNext]_vars /\ WF_vars(RunStep)

\* the phases of a call that has gone through n batches
PhasesOf(n) ==
    [i \in 1..(2 * n) |->
        [phase |-> IF i % 2 = 1 THEN "dispatched" ELSE "reported",
         batch |-> (i + 1) \div 2]]

\* the call has returned
Done == pc = "done"

\* what a call that has returned has done: every batch dispatched and
\* reported once, in turn, the progress bar advanced once per batch, and no
\* batch at all for a vault without documents
DoneAfterEveryBatch ==
    Done => /\ trace = PhasesOf(Len(file_batches))
            /\ progress = Len(file_batches)
            /\ outcome.error = "none"
            /\ vault_files = << >> => file_batches = << >>

\* C20: a call with a pipeline, an existing vault and a batch size of at
\* least 1 returns, provided every extraction call ends; when it has
\* returned every batch has been dispatched and reported once, in turn, and
\* the progress bar has advanced once per batch; a vault without documents
\* makes the call return without any batch dispatched.
RunReachesDone ==
    /\ []DoneAfterEveryBatch
    /\ (pc = "reading" /\ batch_size >= 1) ~> Done

\* the call that does not return: made inside a running event loop on a
\* vault with documents, it is refused by asyncio.run after the vault has
\* been read and before any batch is made
RunRefusedInEventLoop ==
    /\ caller = "coroutine"
    /\ pc = "raised"
    /\ outcome = Ended("create_knowledge_graph", "RuntimeError", NoValue)
    /\ batch_size >= 1
    /\ vault_files # << >>
    /\ file_batches = << >>
    /\ trace = << >>

\* what does hold: the same, for a call made by plain code, as main() makes
\* it; only the call made inside a running event loop fails to return
RunFromPlainCodeReachesDone ==
    /\ []DoneAfterEveryBatch
    /\ (pc = "reading" /\ batch_size >= 1 /\ caller = "api") ~> Done

\* a call by plain code over two batches has returned
RunFromPlainCodeReachesDoneWitness ==
    /\ caller = "api"
    /\ Done
    /\ Len(file_batches) = 2
    /\ progress = 2
    /\ trace = PhasesOf(2)

(* ----------------------- after a failed extraction -------------------- *)
\* node n is an end of an EXTRACTED_FROM or an APPEARS_IN relationship
HasLinkEdge(n) ==
    \E r \in BagToSet(rels) : r.type \in LinkTypes /\ (r.from = n \/ r.to = n)

\* the tasks whose extraction call raised
FailedExtractions == {id \in DOMAIN task : task[id] = "extraction_error"}

\* another document of the same title has executed its link step
LinkedUnderSameTitle(id) ==
    \E other \in DOMAIN steps :
        /\ other # id
        /\ FileOf(other).title = FileOf(id).title
        /\ \E i \in 1..Len(steps[other]) : steps[other][i] = "link"

\* C21, as claimed: when the extraction call of a document has raised, the
\* source record upserted for it stays in the store, and on a store that was
\* empty this source record is the end of no EXTRACTED_FROM and of no
\* APPEARS_IN relationship.
FailedExtractionLeavesBareSource ==
    \A id \in FailedExtractions :
        /\ MatchNote(nodes, FileOf(id).title) # {}
        /\ \A n \in MatchNote(nodes, FileOf(id).title) : ~ HasLinkEdge(n)

\* C21, amended: when the extraction call of a document has raised, the
\* source record upserted for it stays in the store, and on a store that was
\* empty this source record has link relationships only if another document
\* of the same title has executed its link step; a link step ties entities
\* to the source record of its title, which documents of one title share.
FailedExtractionKeepsSource ==
    \A id \in FailedExtractions :
        /\ Cardinality(MatchNote(nodes, FileOf(id).title)) = 1
        /\ \A n \in MatchNote(nodes, FileOf(id).title) :
              HasLinkEdge(n) => LinkedUnderSameTitle(id)

\* a call has returned after the extraction of one document raised, having
\* written an entity, and a document of another title linked: the source
\* record of the first is in the store without any link relationship
FailedExtractionKeepsSourceWitness ==
    /\ pc = "done"
    /\ \E id \in FailedExtractions, other \in DOMAIN steps :
          /\ extracted[id] # {}
          /\ FileOf(other).title # FileOf(id).title
          /\ steps[other] = <<"upsert", "extracted", "link">>
          /\ rels # EmptyBag
          /\ \E n \in MatchNote(nodes, FileOf(id).title) : ~ HasLinkEdge(n)


\* ---------------------------------------------------------------------
\* The free caller: clear_kg.py and test_note_linking.py use the object
\* outside main(), the latter from inside a coroutine.

\* sum(...) == 0 over the counts of a get_graph_stats() result
StatsTotalZero(stats) ==
    /\ \A l \in DOMAIN stats.nodes : stats.nodes[l] = 0
    /\ \A t \in DOMAIN stats.relationships : stats.relationships[t] = 0

\* clear_knowledge_graph() has counted something to delete and was told 'yes'
ClearConfirmed ==
    /\ outcome.op = "get_graph_stats"
    /\ outcome.error = "none"
    /\ ~ StatsTotalZero(outcome.value)

\* with kg.driver.session() as session: session.run("MATCH ()-[r]->() DELETE r")
ClearRelationships ==
    /\ MayCall("clear")
    /\ driver # "none"
    /\ ClearConfirmed
    /\ rels' = EmptyBag
    /\ sessions' = sessions + 1
    /\ UNCHANGED <<disk, driver, pipeline, caller, pc, outcome, runs, run,
                   nodes, lastUpsert, console>>

\* session.run("MATCH (n) DELETE n"), and the session block is left
ClearNodes ==
    /\ sessions > 0
    /\ caller \in FreeCallers
    /\ nodes' = << >>
    /\ lastUpsert' = << >>
    /\ sessions' = sessions - 1
    /\ UNCHANGED <<disk, driver, pipeline, caller, pc, outcome, runs, run,
                   rels, console>>

\* Cypher's CONTAINS on two strings
Contains(s, sub) ==
    \E i \in 0..(Len(s) - Len(sub)) : SubSeq(s, i + 1, i + Len(sub)) = sub

\* dict(record[...]) with one more key: the node's properties and the labels
\* of the entity of the row
RowDict(node, key, entity) ==
    [k \in (DOMAIN node \ {"labels"}) \cup {key} |->
        IF k = key THEN entity.labels ELSE node[k]]

\* the relationships of a type, each as often as the store holds it: one
\* row per relationship, parallel relationships told apart by their number
RelsOfType(rs, type) ==
    UNION {{[rel |-> r, copy |-> k] : k \in 1..CopiesIn(r, rs)} :
              r \in {q \in BagToSet(rs) : q.type = type}}

\* the rows of MATCH (n:Note {title: $title})-[:APPEARS_IN]->(e)
EntitiesInNoteRows(ns, rs, title) ==
    {row \in RelsOfType(rs, "APPEARS_IN") : row.rel.from \in MatchNote(ns, title)}

\* the rows of MATCH (e)-[:EXTRACTED_FROM]->(n:Note)
\* WHERE e.name CONTAINS $entity_name OR e.title CONTAINS $entity_name
NotesWithEntityRows(ns, rs, entity_name) ==
    {row \in RelsOfType(rs, "EXTRACTED_FROM") :
        /\ HasLabel(ns[row.rel.to], NoteLabel)
        /\ \/ /\ "name" \in DOMAIN ns[row.rel.from]
              /\ Contains(ns[row.rel.from].name, entity_name)
           \/ /\ "title" \in DOMAIN ns[row.rel.from]
              /\ Contains(ns[row.rel.from].title, entity_name)}

\* entities.append(entity) for every record, in the order the store
\* delivers the rows (the query has no ORDER BY)
get_entities_in_note(ns, order) ==
    [i \in 1..Len(order) |->
        RowDict(ns[order[i].rel.to], "types", ns[order[i].rel.to])]

\* notes.append(note) for every record, in the order the store delivers
\* the rows
get_notes_with_entity(ns, order) ==
    [i \in 1..Len(order) |->
        RowDict(ns[order[i].rel.to], "entity_types", ns[order[i].rel.from])]

\* the names a caller asks get_notes_with_entity for
EntityNames == {<<"a">>, <<"z">>}

GetEntitiesInNote(title) ==
    /\ MayCall("entities")
    /\ IF driver = "none"
       THEN /\ outcome' = Ended("get_entities_in_note", "RuntimeError", NoValue)
            /\ UNCHANGED sessions
       ELSE /\ \E order \in Orderings(EntitiesInNoteRows(nodes, rels, title)) :
                  outcome' = Ended("get_entities_in_note", "none",
                                   get_entities_in_note(nodes, order))
            /\ sessions' = WithSession(sessions, FALSE)
    /\ UNCHANGED <<disk, driver, pipeline, caller, pc, runs, run, store, console>>

GetNotesWithEntity(entity_name) ==
    /\ MayCall("notes")
    /\ IF driver = "none"
       THEN /\ outcome' = Ended("get_notes_with_entity", "RuntimeError", NoValue)
            /\ UNCHANGED sessions
       ELSE /\ \E order \in Orderings(NotesWithEntityRows(nodes, rels, entity_name)) :
                  outcome' = Ended("get_notes_with_entity", "none",
                                   get_notes_with_entity(nodes, order))
            /\ sessions' = WithSession(sessions, FALSE)
    /\ UNCHANGED <<disk, driver, pipeline, caller, pc, runs, run, store, console>>

\* the calls made on the object and the statements of clear_knowledge_graph()
ApiNext ==
    \/ connect
    \/ disconnect
    \/ setup_pipeline
    \/ GetGraphStats
    \/ RunNext
    \/ ReadVaultFiles
    \/ \E title \in LinkTitles : LinkEntitiesToNote(title)
    \/ \E title \in LinkTitles : GetEntitiesInNote(title)
    \/ \E entity_name \in EntityNames : GetNotesWithEntity(entity_name)
    \/ ClearRelationships
    \/ ClearNodes

ApiInit ==
    /\ disk \in ApiDisks
    /\ caller \in FreeCallers
    /\ Fresh
    /\ EmptyStore

ApiSpec == ApiInit /\ [][ApiNext]_vars

====
